---------------------------- MODULE Spec2Model ----------------------------
(***************************************************************************)
(* Model of src/app.py: the POST /broadcast handler, the spreadsheet       *)
(* lookup get_message_from_sheets() and the 15-entry rotation table.       *)
(*                                                                         *)
(* Text.  A Python str is modelled as a sequence of characters; every      *)
(* character is a TLA+ string.  The date cells and the strftime() results  *)
(* are spelled character by character, so that `x in date_cell` is a real  *)
(* substring search.  The kanji of the source are written in romaji:       *)
(* "nen" (year sign), "gatsu" (month sign), "nichi" (day sign), and        *)
(* "mai","shuu" (the two characters of the recurring marker).  In message  *)
(* texts a run of non-whitespace characters may be written as one element  *)
(* ("weekly"); whitespace characters are always elements of their own, so  *)
(* str.strip() acts on elements exactly as it acts on characters.          *)
(*                                                                         *)
(* Optional values (Python None or a str) are records [some, val].         *)
(***************************************************************************)
EXTENDS Integers, Sequences, FiniteSets, TLC

VARIABLES
    today,                  \* datetime.now(jst): [year, month, day]
    GOOGLE_SHEETS_API_KEY,  \* TRUE iff the environment variable is set
    SPREADSHEET_ID,         \* TRUE iff the environment variable is set
    values,                 \* the rows of range A:B held by the spreadsheet
    request,                \* body of the POST /broadcast being answered
    sheets_status,          \* what requests.get() did in that invocation
    sheet_message,          \* what get_message_from_sheets() returned
    tier,                   \* branch of the selection that set message_text
    sent,                   \* the BroadcastRequests handed to MessagingApi
    delivery,               \* what line_bot_api.broadcast() did
    response,               \* the (body, status code) the handler returned
    GEMINI_API_KEY,         \* TRUE iff the environment variable is set
    DETAILED_TEACHINGS,     \* the module's dict of articles
    wisdom,                 \* what GET /test-wisdom returned
    page,                   \* what GET /blog/<teaching_key> returned
    watch,                  \* invocations the channel's observer still records
    invocations,            \* recorded invocations that selected a message
    successes,              \* recorded invocations answered with success
    outbox                  \* recorded BroadcastRequests the LINE API received

vars == <<today, GOOGLE_SHEETS_API_KEY, SPREADSHEET_ID, values, request,
          sheets_status, sheet_message, tier, sent, delivery, response,
          GEMINI_API_KEY, DETAILED_TEACHINGS, wisdom, page,
          watch, invocations, successes, outbox>>

---------------------------------------------------------------------------
(* Bounds of the model *)

\* Rows the spreadsheet may hold (the header row included).
MaxRows == 3
\* Days the clock advances past StartDate under Spec.
MaxDays == 2
\* Invocations the observer of the channel records under SpecRepeat.
MaxCalls == 3
\* Years after StartDate.year that the clock runs through under SpecYear.
YearSpan == 1

\* First date of the behaviours (a Sunday; 2024-01-01 is a Monday).
StartDate == [year |-> 2023, month |-> 12, day |-> 31]

---------------------------------------------------------------------------
(* Optional values *)

None == [some |-> FALSE, val |-> <<>>]
Some(x) == [some |-> TRUE, val |-> x]
\* Python truthiness of an Optional[str]: None and "" are falsy.
Truthy(o) == o.some /\ o.val # <<>>

---------------------------------------------------------------------------
(* str operations *)

Whitespace == {" ", "\n", "\t"}

\* `sub in s` for two str
Contains(sub, s) ==
    \E i \in 0..(Len(s) - Len(sub)) : SubSeq(s, i + 1, i + Len(sub)) = sub

RECURSIVE LStrip(_)
LStrip(s) ==
    IF s # <<>> /\ Head(s) \in Whitespace THEN LStrip(Tail(s)) ELSE s

RECURSIVE RStrip(_)
RStrip(s) ==
    IF s # <<>> /\ s[Len(s)] \in Whitespace
    THEN RStrip(SubSeq(s, 1, Len(s) - 1))
    ELSE s

\* str.strip()
Strip(s) == RStrip(LStrip(s))

Digit(n) == CASE n = 0 -> "0" [] n = 1 -> "1" [] n = 2 -> "2" [] n = 3 -> "3"
              [] n = 4 -> "4" [] n = 5 -> "5" [] n = 6 -> "6" [] n = 7 -> "7"
              [] n = 8 -> "8" [] n = 9 -> "9"

\* %m and %d: two digits, zero padded
Digits2(n) == <<Digit((n \div 10) % 10), Digit(n % 10)>>
\* %Y: four digits
Digits4(n) == Digits2(n \div 100) \o Digits2(n % 100)

---------------------------------------------------------------------------
(* The calendar of datetime *)

IsLeap(y) == (y % 4 = 0) /\ ((y % 100 # 0) \/ (y % 400 = 0))

DaysInMonth(y, m) ==
    IF m = 2 THEN (IF IsLeap(y) THEN 29 ELSE 28)
    ELSE IF m \in {4, 6, 9, 11} THEN 30 ELSE 31

RECURSIVE DaysBeforeMonth(_, _)
DaysBeforeMonth(y, m) ==
    IF m = 1 THEN 0 ELSE DaysBeforeMonth(y, m - 1) + DaysInMonth(y, m - 1)

DaysInYear(y) == IF IsLeap(y) THEN 366 ELSE 365

\* today.timetuple().tm_yday: 1-based ordinal day of the year
tm_yday(d) == DaysBeforeMonth(d.year, d.month) + d.day

DaysBeforeYear(y) ==
    (y - 1) * 365 + ((y - 1) \div 4) - ((y - 1) \div 100) + ((y - 1) \div 400)

\* date.toordinal(): days since 0001-01-01, that day being 1
toordinal(d) == DaysBeforeYear(d.year) + tm_yday(d)

\* date.weekday(): Monday is 0
WeekdayIndex(d) == (toordinal(d) + 6) % 7

NextDay(d) ==
    IF d.day < DaysInMonth(d.year, d.month)
    THEN [d EXCEPT !.day = d.day + 1]
    ELSE IF d.month < 12
         THEN [year |-> d.year, month |-> d.month + 1, day |-> 1]
         ELSE [year |-> d.year + 1, month |-> 1, day |-> 1]

\* today.strftime("%Y<nen>%m<gatsu>%d<nichi>")
today_str(d) ==
    Digits4(d.year) \o <<"nen">> \o Digits2(d.month) \o <<"gatsu">>
        \o Digits2(d.day) \o <<"nichi">>

\* today.strftime("%m<gatsu>%d<nichi>")
month_day(d) ==
    Digits2(d.month) \o <<"gatsu">> \o Digits2(d.day) \o <<"nichi">>

DayNames ==
    << <<"M", "o", "n">>, <<"T", "u", "e">>, <<"W", "e", "d">>,
       <<"T", "h", "u">>, <<"F", "r", "i">>, <<"S", "a", "t">>,
       <<"S", "u", "n">> >>

\* today.strftime("%a")
weekday(d) == DayNames[WeekdayIndex(d) + 1]

\* the literal recurring marker
RecurringMarker == <<"mai", "shuu">>

---------------------------------------------------------------------------
(* get_message_from_sheets() *)

\* DateMatches without the test for the recurring marker.
DateMatches_no_marker(date_cell, d) ==
    \/ Contains(today_str(d), date_cell)
    \/ Contains(month_day(d), date_cell)
    \/ Contains(weekday(d), date_cell)

\* The date cell matches today: full date, month-day, weekday or marker.
DateMatches(date_cell, d) ==
    \/ Contains(today_str(d), date_cell)
    \/ Contains(month_day(d), date_cell)
    \/ Contains(weekday(d), date_cell)
    \/ Contains(RecurringMarker, date_cell)

\* RowYields with the message cell tested without strip().
RowYields_unstripped(row, d) ==
    /\ Len(row) >= 2
    /\ DateMatches(row[1], d)
    /\ row[2] # <<>>

\* The body of the for loop returns this row's message cell.
RowYields(row, d) ==
    /\ Len(row) >= 2
    /\ DateMatches(row[1], d)
    /\ Strip(row[2]) # <<>>

\* ScanRows that keeps scanning and returns the last row that yields.
RECURSIVE ScanRows_last(_, _)
ScanRows_last(rows, d) ==
    IF rows = <<>> THEN None
    ELSE LET rest == ScanRows_last(Tail(rows), d)
         IN  IF rest.some THEN rest
             ELSE IF RowYields(Head(rows), d) THEN Some(Head(rows)[2])
             ELSE None

\* for row in rows: the message cell of the first row that yields one
RECURSIVE ScanRows(_, _)
ScanRows(rows, d) ==
    IF rows = <<>> THEN None
    ELSE IF RowYields(Head(rows), d) THEN Some(Head(rows)[2])
    ELSE ScanRows(Tail(rows), d)

\* values[1:]
SkipHeader(vals) == IF vals = <<>> THEN <<>> ELSE Tail(vals)

\* The Row Source is configured.
SheetsConfigured(key, id) == key /\ id

\* What requests.get() and response.json() can do.
SheetsOutcomes == {"ok", "http_error", "raise", "bad_json"}

\* The outcome of the HTTP request, or that none was made.
SheetsStatus(key, id, outcome) ==
    IF SheetsConfigured(key, id) THEN outcome ELSE "not_requested"

\* The try block of get_message_from_sheets: a returned value or an exception.
SheetsTry(key, id, outcome, vals, d) ==
    IF ~SheetsConfigured(key, id) THEN [raised |-> FALSE, value |-> None]
    ELSE IF outcome = "raise" THEN [raised |-> TRUE, value |-> None]
    ELSE IF outcome = "http_error" THEN [raised |-> FALSE, value |-> None]
    ELSE IF outcome = "bad_json" THEN [raised |-> TRUE, value |-> None]
    ELSE IF vals = <<>> THEN [raised |-> FALSE, value |-> None]
    ELSE [raised |-> FALSE, value |-> ScanRows(SkipHeader(vals), d)]

\* get_message_from_sheets without its except clause.
get_message_from_sheets_uncaught(key, id, outcome, vals, d) ==
    SheetsTry(key, id, outcome, vals, d)

\* except Exception: return None
get_message_from_sheets(key, id, outcome, vals, d) ==
    LET r == SheetsTry(key, id, outcome, vals, d)
    IN  [raised |-> FALSE, value |-> IF r.raised THEN None ELSE r.value]

---------------------------------------------------------------------------
(* The rotation table *)

teaching_keys ==
    <<"chudo", "ichigo_ichie", "mujo", "inga", "jihi",
      "chisoku", "imakoko", "muga", "niniku", "fuse",
      "shoken", "kutai", "engi", "ku", "shojin">>

\* TeachingLinks with the link of the last message misspelt.
TeachingLinks_typo ==
    <<"chudo", "ichigo_ichie", "mujo", "inga", "jihi",
      "chisoku", "imakoko", "muga", "niniku", "fuse",
      "shoken", "kutai", "engi", "ku", "shoujin">>

\* The key each message literal links to, in the order of the list.
TeachingLinks ==
    <<"chudo", "ichigo_ichie", "mujo", "inga", "jihi",
      "chisoku", "imakoko", "muga", "niniku", "fuse",
      "shoken", "kutai", "engi", "ku", "shojin">>

\* The sentences of each message, one element per message.
TeachingBodies ==
    <<"body_01", "body_02", "body_03", "body_04", "body_05",
      "body_06", "body_07", "body_08", "body_09", "body_10",
      "body_11", "body_12", "body_13", "body_14", "body_15">>

BlogUrl == "https://buddhist-line-bot-production.up.railway.app/blog/"

\* Greeting, blank line, teaching, blank line, closing, blank line, link.
teachings_with_url ==
    [i \in 1..15 |->
        <<"ohayou", "\n", "\n", TeachingBodies[i], "\n", "\n",
          "kyoumo", "\n", "\n", "yomu", BlogUrl, TeachingLinks[i]>>]

\* teaching_index without the -1.
teaching_index_from_one(d) == tm_yday(d) % Len(teachings_with_url)

\* teaching_index taken from the month and the day of the month.
teaching_index_month_day(d) == (d.month + d.day) % Len(teachings_with_url)

\* teaching_index = (day_of_year - 1) % len(teachings_with_url)
teaching_index(d) == (tm_yday(d) - 1) % Len(teachings_with_url)

\* teachings_with_url[teaching_index].strip()  (Python indexes from 0)
RotationText(d) == Strip(teachings_with_url[teaching_index(d) + 1])

---------------------------------------------------------------------------
(* POST /broadcast *)

\* Request bodies: what request.get_json() makes of them.
\*   "invalid"  the body is not JSON: get_json() raises BadRequest
\*   "null"     the JSON literal null: get_json() returns None
\*   "list"     a non-empty JSON array: it has no .get
\*   "object"   a JSON object; message is its 'message' entry, None if absent
Bodies ==
    { [json |-> "invalid", message |-> None],
      [json |-> "null", message |-> None],
      [json |-> "list", message |-> None],
      [json |-> "object", message |-> None],
      [json |-> "object", message |-> Some(<<>>)],
      [json |-> "object", message |-> Some(<<"hello">>)],
      [json |-> "object", message |-> Some(<<" ", "hi", "\n">>)] }

NoRequest == [json |-> "none", message |-> None]

\* data = request.get_json() or {} ; data.get('message')
DataMessage(body) ==
    IF body.json = "invalid" THEN [raised |-> "BadRequest", value |-> None]
    ELSE IF body.json = "list" THEN [raised |-> "AttributeError", value |-> None]
    ELSE IF body.json = "object" THEN [raised |-> "", value |-> body.message]
    ELSE [raised |-> "", value |-> None]

\* The spreadsheet consulted whatever the request says.
NeedsLookup_always(msg) == TRUE

\* if not data.get('message'): the spreadsheet is consulted
NeedsLookup(msg) == ~Truthy(msg)

\* SelectMessage with the override trimmed like a rotation entry.
SelectMessage_strip(msg, sm, d) ==
    IF ~Truthy(msg)
    THEN IF Truthy(sm)
         THEN [tier |-> "SHEET", text |-> sm.val]
         ELSE [tier |-> "ROTATION", text |-> RotationText(d)]
    ELSE [tier |-> "CUSTOM", text |-> Strip(msg.val)]

\* The if/else that sets message_text; sm is the spreadsheet's answer.
SelectMessage(msg, sm, d) ==
    IF ~Truthy(msg)
    THEN IF Truthy(sm)
         THEN [tier |-> "SHEET", text |-> sm.val]
         ELSE [tier |-> "ROTATION", text |-> RotationText(d)]
    ELSE [tier |-> "CUSTOM", text |-> msg.val]

NoResponse ==
    [code |-> 0, status |-> "none", message |-> "", content |-> None]

\* return {"status": "error", "message": str(e)}, 500
ErrorResponse(e) ==
    [code |-> 500, status |-> "error", message |-> e, content |-> None]

\* return {"status": "success", "message": ..., "content": message_text}, 200
SuccessResponse(text) ==
    [code |-> 200, status |-> "success",
     message |-> "Buddhist wisdom broadcast sent", content |-> Some(text)]

\* BroadcastRequest(messages=[TextMessage(text=message_text)])
BroadcastRequest(text) == [messages |-> << [type |-> "text", text |-> text] >>]

\* Deliver that calls the LINE API a second time when the first call fails.
Deliver_retry(text, ok) ==
    [sent |-> IF ok THEN <<BroadcastRequest(text)>>
              ELSE <<BroadcastRequest(text), BroadcastRequest(text)>>,
     delivery |-> IF ok THEN "ok" ELSE "failed",
     response |-> IF ok THEN SuccessResponse(text)
                  ELSE ErrorResponse("ApiException")]

\* Deliver that reports the trimmed text as the content sent.
Deliver_trimmed_content(text, ok) ==
    [sent |-> <<BroadcastRequest(text)>>,
     delivery |-> IF ok THEN "ok" ELSE "failed",
     response |-> IF ok THEN SuccessResponse(Strip(text))
                  ELSE ErrorResponse("ApiException")]

\* Deliver that answers with the error result whatever the LINE API did.
Deliver_always_error(text, ok) ==
    [sent |-> <<BroadcastRequest(text)>>,
     delivery |-> IF ok THEN "ok" ELSE "failed",
     response |-> ErrorResponse("ApiException")]

\* The delivery and the return that follows it; ok is what the LINE API does.
Deliver(text, ok) ==
    [sent |-> <<BroadcastRequest(text)>>,
     delivery |-> IF ok THEN "ok" ELSE "failed",
     response |-> IF ok THEN SuccessResponse(text)
                  ELSE ErrorResponse("ApiException")]

\* An exception before the delivery: the except clause answers.
Aborted(e, status) ==
    [sheets_status |-> status, sheet_message |-> None, tier |-> "NONE",
     sent |-> <<>>, delivery |-> "not_called", response |-> ErrorResponse(e)]

\* The whole handler: everything one invocation does and returns.
broadcast(body, outcome, ok, key, id, vals, d) ==
    LET got == DataMessage(body)
        msg == got.value
        look == NeedsLookup(msg)
        sm == IF look THEN get_message_from_sheets(key, id, outcome, vals, d)
              ELSE [raised |-> FALSE, value |-> None]
        status == IF look THEN SheetsStatus(key, id, outcome)
                  ELSE "not_requested"
        sel == SelectMessage(msg, sm.value, d)
        out == Deliver(sel.text, ok)
    IN  IF got.raised # "" THEN Aborted(got.raised, "not_requested")
        ELSE IF sm.raised THEN Aborted("RequestException", status)
        ELSE [sheets_status |-> status, sheet_message |-> sm.value,
              tier |-> sel.tier, sent |-> out.sent,
              delivery |-> out.delivery, response |-> out.response]

---------------------------------------------------------------------------
(* GET /test-wisdom *)

\* What model.generate_content() can do.
GeneratorOutcomes == {"ok", "raise"}

\* wisdom_response.text
GeneratedText == <<"generated", " ", "wisdom">>

\* The fixed default message, with the line break and spaces that end it.
DefaultText == <<"[default]", "\n", "gassho", "\n", "namu", "\n", " ">>

NoWisdom ==
    [code |-> 0, kind |-> "none", text |-> <<>>, generator |-> "not_called"]

\* The try block that ends test_wisdom: generate, or give the default.
WisdomFallback(gemini, gen) ==
    IF gemini
    THEN IF gen = "raise"
         THEN [code |-> 500, kind |-> "error",
               text |-> <<"error:", " ", "GeneratorError">>,
               generator |-> "failed"]
         ELSE [code |-> 200, kind |-> "generated",
               text |-> <<"[generated]", "\n">> \o GeneratedText,
               generator |-> "ok"]
    ELSE [code |-> 200, kind |-> "default", text |-> DefaultText,
          generator |-> "not_called"]

\* The whole handler: the spreadsheet first, then the generator.
test_wisdom(gemini, gen, key, id, outcome, vals, d) ==
    LET sm == get_message_from_sheets(key, id, outcome, vals, d)
    IN  IF sm.raised
        THEN [code |-> 500, kind |-> "unhandled", text |-> <<>>,
              generator |-> "not_called"]
        ELSE IF Truthy(sm.value)
        THEN [code |-> 200, kind |-> "sheet",
              text |-> <<"[sheet]", "\n">> \o sm.value.val,
              generator |-> "not_called"]
        ELSE WisdomFallback(gemini, gen)

---------------------------------------------------------------------------
(* GET /blog/<teaching_key> *)

\* Key and 'name' of every entry of the DETAILED_TEACHINGS literal, in its
\* order; a name is written as the code points of its characters.
TeachingNames ==
    <<
      <<"chudo", "U+4E2D U+9053">>,
      <<"ichigo_ichie", "U+4E00 U+671F U+4E00 U+4F1A">>,
      <<"mujo", "U+8AF8 U+884C U+7121 U+5E38">>,
      <<"inga", "U+56E0 U+679C U+5FDC U+5831">>,
      <<"jihi", "U+6148 U+60B2">>,
      <<"chisoku", "U+77E5 U+8DB3">>,
      <<"imakoko", "U+4ECA U+3053 U+3053">>,
      <<"muga", "U+7121 U+6211">>,
      <<"niniku", "U+5FCD U+8FB1">>,
      <<"fuse", "U+5E03 U+65BD">>,
      <<"shoken", "U+6B63 U+898B">>,
      <<"kutai", "U+82E6 U+8AE6">>,
      <<"engi", "U+7E01 U+8D77">>,
      <<"ku", "U+7A7A">>,
      <<"shojin", "U+7CBE U+9032">>
    >>

\* The dict the module defines; of an entry only 'name' is kept.
TeachingTable ==
    [k \in {TeachingNames[i][1] : i \in 1..Len(TeachingNames)} |->
        [name |-> TeachingNames[CHOOSE i \in 1..Len(TeachingNames) :
                                    TeachingNames[i][1] = k][2]]]

\* What dict.get() gives for a key the dict does not hold.
NoTeaching == [name |-> ""]

NoPage == [key |-> "", code |-> 0, teaching |-> NoTeaching]

\* blog_article that shows the first article for a key it does not know.
blog_article_default(table, teaching_key) ==
    IF teaching_key \in DOMAIN table
    THEN [key |-> teaching_key, code |-> 200, teaching |-> table[teaching_key]]
    ELSE [key |-> teaching_key, code |-> 200, teaching |-> table["chudo"]]

\* teaching = DETAILED_TEACHINGS.get(key); abort(404) or render it
blog_article(table, teaching_key) ==
    LET teaching == IF teaching_key \in DOMAIN table
                    THEN table[teaching_key] ELSE NoTeaching
    IN  IF teaching = NoTeaching
        THEN [key |-> teaching_key, code |-> 404, teaching |-> NoTeaching]
        ELSE [key |-> teaching_key, code |-> 200, teaching |-> teaching]

\* The keys asked for: every key of the rotation, and two that no entry has.
BlogRequestKeys ==
    {teaching_keys[i] : i \in 1..Len(teaching_keys)} \cup {"doesnotexist", "Chudo"}

---------------------------------------------------------------------------
(* The spreadsheet's rows *)

FullDateCell ==
    <<"2", "0", "2", "4", "nen", "0", "1", "gatsu", "0", "1", "nichi">>
MonthDayCell == <<"1", "2", "gatsu", "3", "1", "nichi">>
MondayCell == <<"M", "o", "n">>

rHeader == << <<"d", "a", "t", "e">>, <<"message">> >>
rWeekly == << RecurringMarker, <<"weekly", " ", "note">> >>
rNewYear == << FullDateCell, <<"new", " ", "year">> >>
rMonday == << MondayCell, <<"monday">> >>
rYearEnd == << MonthDayCell, <<"year", " ", "end">> >>
rBlank == << RecurringMarker, <<" ", "\n">> >>
rShort == << RecurringMarker >>

\* The first row of a sheet, and the rows below it.
HeaderRows == {rHeader, rWeekly}
DataRows == {rWeekly, rNewYear, rMonday, rBlank, rShort}

\* The sheets the year-long behaviours start from.
YearSheets ==
    { <<>>, <<rHeader, rMonday>>, <<rHeader, rYearEnd>>, <<rWeekly>>,
      <<rHeader, rNewYear, rWeekly>> }

---------------------------------------------------------------------------
(* Behaviours *)

\* No request is being answered.
Idle ==
    /\ request = NoRequest
    /\ sheets_status = "not_requested"
    /\ sheet_message = None
    /\ tier = "NONE"
    /\ sent = <<>>
    /\ delivery = "not_called"
    /\ response = NoResponse
    /\ wisdom = NoWisdom
    /\ page = NoPage

\* Nobody records what the channel receives.
Unwatched ==
    /\ watch = 0
    /\ invocations = 0
    /\ successes = 0
    /\ outbox = <<>>

Init ==
    /\ today = StartDate
    /\ GOOGLE_SHEETS_API_KEY \in BOOLEAN
    /\ SPREADSHEET_ID \in BOOLEAN
    /\ GEMINI_API_KEY \in BOOLEAN
    /\ DETAILED_TEACHINGS = TeachingTable
    /\ values = <<>>
    /\ Idle
    /\ Unwatched

\* The broadcast handler reads neither GEMINI_API_KEY nor the articles.
InitYear ==
    /\ today = [year |-> StartDate.year, month |-> 1, day |-> 1]
    /\ GOOGLE_SHEETS_API_KEY \in BOOLEAN
    /\ SPREADSHEET_ID = TRUE
    /\ GEMINI_API_KEY = TRUE
    /\ DETAILED_TEACHINGS = TeachingTable
    /\ values \in YearSheets
    /\ GOOGLE_SHEETS_API_KEY \/ values = <<rHeader, rMonday>>
    /\ Idle
    /\ Unwatched

\* One day, a working configuration, and an observer of the channel.
InitRepeat ==
    /\ today = StartDate
    /\ GOOGLE_SHEETS_API_KEY = TRUE
    /\ SPREADSHEET_ID = TRUE
    /\ GEMINI_API_KEY = TRUE
    /\ DETAILED_TEACHINGS = TeachingTable
    /\ values \in {<<>>, <<rHeader, rWeekly>>}
    /\ Idle
    /\ watch = MaxCalls
    /\ invocations = 0
    /\ successes = 0
    /\ outbox = <<>>

config ==
    <<GOOGLE_SHEETS_API_KEY, SPREADSHEET_ID, GEMINI_API_KEY, DETAILED_TEACHINGS>>

invocation ==
    <<request, sheets_status, sheet_message, tier, sent, delivery, response>>

tally == <<watch, invocations, successes, outbox>>

\* Midnight in UTC+9 passes.
Tick(last) ==
    /\ Idle
    /\ toordinal(today) < last
    /\ today' = NextDay(today)
    /\ UNCHANGED <<config, values, invocation, wisdom, page, tally>>

AdvanceDay == Tick(toordinal(StartDate) + MaxDays)

AdvanceYear ==
    Tick(toordinal([year |-> StartDate.year + YearSpan, month |-> 12, day |-> 31]))

\* The sheet's owner adds a row below the others.
AppendRow ==
    /\ Idle
    /\ Len(values) < MaxRows
    /\ \E row \in (IF values = <<>> THEN HeaderRows ELSE DataRows) :
           values' = Append(values, row)
    /\ UNCHANGED <<today, config, invocation, wisdom, page, tally>>

\* The sheet's owner empties the sheet.
ClearSheet ==
    /\ Idle
    /\ values # <<>>
    /\ values' = <<>>
    /\ UNCHANGED <<today, config, invocation, wisdom, page, tally>>

\* The caller has the response; the request's locals are gone.
Return ==
    /\ ~Idle
    /\ request' = NoRequest
    /\ sheets_status' = "not_requested"
    /\ sheet_message' = None
    /\ tier' = "NONE"
    /\ sent' = <<>>
    /\ delivery' = "not_called"
    /\ response' = NoResponse
    /\ wisdom' = NoWisdom
    /\ page' = NoPage
    /\ UNCHANGED <<today, config, values, tally>>

\* CallsMade that leaves out a text the channel has received before.
CallsMade_dedup(r, log) ==
    IF \E i \in 1..Len(log) : <<log[i].request>> = r.sent THEN <<>> ELSE r.sent

\* The calls of line_bot_api.broadcast one invocation makes: those of the
\* handler, which knows nothing of what the channel received before.
CallsMade(r, log) == r.sent

\* One POST /broadcast, from the request to the response.  The handler runs
\* to its return before the clock or the sheet is looked at again.
Broadcast ==
    /\ Idle
    /\ \E body \in Bodies, outcome \in SheetsOutcomes, ok \in BOOLEAN :
        LET r == broadcast(body, outcome, ok, GOOGLE_SHEETS_API_KEY,
                           SPREADSHEET_ID, values, today)
            calls == CallsMade(r, outbox)
        IN  /\ request' = body
            /\ sheets_status' = r.sheets_status
            /\ sheet_message' = r.sheet_message
            /\ tier' = r.tier
            /\ sent' = calls
            /\ delivery' = r.delivery
            /\ response' = r.response
            /\ IF watch > 0
               THEN /\ watch' = watch - 1
                    /\ invocations' = invocations + (IF r.tier # "NONE" THEN 1 ELSE 0)
                    /\ successes' = successes + (IF r.response.code = 200 THEN 1 ELSE 0)
                    /\ outbox' = outbox \o
                           [i \in 1..Len(calls) |->
                               [request |-> calls[i], accepted |-> ok]]
               ELSE UNCHANGED tally
    /\ UNCHANGED <<today, config, values, wisdom, page>>

\* One GET /test-wisdom.
TestWisdom ==
    /\ Idle
    /\ \E outcome \in SheetsOutcomes, gen \in GeneratorOutcomes :
           wisdom' = test_wisdom(GEMINI_API_KEY, gen, GOOGLE_SHEETS_API_KEY,
                                 SPREADSHEET_ID, outcome, values, today)
    /\ UNCHANGED <<today, config, values, invocation, page, tally>>

\* One GET /blog/<teaching_key>.
BlogArticle ==
    /\ Idle
    /\ \E teaching_key \in BlogRequestKeys :
           page' = blog_article(DETAILED_TEACHINGS, teaching_key)
    /\ UNCHANGED <<today, config, values, invocation, wisdom, tally>>

Next ==
    \/ AdvanceDay \/ AppendRow \/ ClearSheet
    \/ Broadcast \/ TestWisdom \/ BlogArticle \/ Return

Spec == Init /\ [][Next]_vars

NextYear == AdvanceYear \/ Broadcast \/ Return

SpecYear == InitYear /\ [][NextYear]_vars

NextRepeat == Broadcast \/ Return

SpecRepeat == InitRepeat /\ [][NextRepeat]_vars

---------------------------------------------------------------------------
(* Vocabulary of the properties *)

\* The handler has returned a response for the request in hand.
Answered == response # NoResponse

\* The request carries a non-empty override string.
HasOverride == request.json = "object" /\ Truthy(request.message)

\* The request parses and carries no override (absent, or the empty string).
NoOverride == request.json \in {"null", "object"} /\ ~Truthy(request.message)

\* The text of the one message of the one BroadcastRequest handed over.
SentText == sent[1].messages[1].text

\* The rows below the header row.
DataRowsOf(vals) == SkipHeader(vals)

\* Every character of the cell is a whitespace character (or there is none).
IsBlank(cell) == \A k \in 1..Len(cell) : cell[k] \in Whitespace

\* The lookup read rows from the spreadsheet.
RowsRead == sheets_status = "ok" /\ values # <<>>

---------------------------------------------------------------------------
(* C1 *)

\* C1: when the request carries a non-empty override string m, the text
\* handed to the Broadcaster is m verbatim, and the content echoed by a
\* success response is m, whatever the configuration, the rows of the
\* spreadsheet and the date.
C1_OverrideVerbatim ==
    (Answered /\ HasOverride) =>
        /\ sent = <<BroadcastRequest(request.message.val)>>
        /\ response.code = 200 => response.content = request.message
        /\ tier = "CUSTOM"

\* An override with surrounding whitespace went out while the spreadsheet
\* held a row that matches every day.
C1_Witness ==
    /\ Answered
    /\ request.message = Some(<<" ", "hi", "\n">>)
    /\ Len(values) >= 2 /\ values[2] = rWeekly
    /\ SentText = <<" ", "hi", "\n">>
    /\ response.content = Some(<<" ", "hi", "\n">>)

---------------------------------------------------------------------------
(* C2 *)

\* C2: the tiers are tried in the order override, spreadsheet, rotation.
\* The spreadsheet is requested only when the override is absent or empty;
\* a message found there is the text broadcast; a rotation entry is
\* broadcast only when the lookup found none.
C2_TierOrder ==
    (Answered /\ request.json \in {"null", "object"}) =>
        /\ sheets_status # "not_requested" => ~Truthy(request.message)
        /\ Truthy(request.message) => tier = "CUSTOM"
        /\ (~Truthy(request.message) /\ Truthy(sheet_message)) =>
               (tier = "SHEET" /\ SentText = sheet_message.val)
        /\ tier = "ROTATION" =>
               /\ ~Truthy(request.message)
               /\ sheet_message = None
               /\ ScanRows(DataRowsOf(values), today) = None
                      \/ sheets_status # "ok"
               /\ SentText = RotationText(today)
        /\ (RowsRead /\ ScanRows(DataRowsOf(values), today) # None) =>
               (tier = "SHEET" /\ SentText # RotationText(today))

\* The lookup found a message and that message, not the day's rotation
\* entry, was broadcast.
C2_Witness ==
    /\ Answered /\ NoOverride
    /\ sheets_status = "ok"
    /\ sheet_message = Some(<<"weekly", " ", "note">>)
    /\ tier = "SHEET"
    /\ SentText = <<"weekly", " ", "note">>

---------------------------------------------------------------------------
(* C3 *)

\* The data rows (1-based, header excluded) that match today and have a
\* non-blank message cell.
MatchingRows(vals, d) ==
    {i \in 1..Len(DataRowsOf(vals)) : RowYields(DataRowsOf(vals)[i], d)}

\* C3: the lookup returns the message cell of the first matching row in
\* source order; never that of a later row, even when the later row matches
\* on the full date and the earlier one on the weekday or the marker.
C3_FirstMatchWins ==
    RowsRead =>
        LET rows == DataRowsOf(values)
            m == MatchingRows(values, today)
        IN  /\ m = {} => sheet_message = None
            /\ m # {} =>
                   \E i \in m :
                       /\ \A j \in m : i <= j
                       /\ sheet_message = Some(rows[i][2])

\* On 2024-01-01 the marker row precedes the row of that very date, and the
\* marker row's message is returned.
C3_Witness ==
    /\ RowsRead
    /\ values = <<rHeader, rWeekly, rNewYear>>
    /\ Contains(today_str(today), rNewYear[1])
    /\ sheet_message = Some(rWeekly[2])
    /\ SentText = rWeekly[2]

---------------------------------------------------------------------------
(* C4 *)

\* C4: a row whose message cell is empty, whitespace-only or missing is
\* never returned, even when its date cell matches; the scan goes on to a
\* later matching row with a non-blank message, and when there is none the
\* lookup yields nothing and the rotation entry is broadcast.
C4_BlankRowsSkipped ==
    RowsRead =>
        LET rows == DataRowsOf(values)
            good == {i \in 1..Len(rows) :
                        /\ Len(rows[i]) >= 2
                        /\ ~IsBlank(rows[i][2])
                        /\ DateMatches(rows[i][1], today)}
        IN  /\ sheet_message.some => ~IsBlank(sheet_message.val)
            /\ good # {} => \E i \in good : sheet_message = Some(rows[i][2])
            /\ good = {} =>
                   /\ sheet_message = None
                   /\ tier = "ROTATION"
                   /\ SentText = RotationText(today)

\* A whitespace-only row that matches every day is passed over for the row
\* after it.
C4_Witness ==
    /\ RowsRead
    /\ values = <<rHeader, rBlank, rWeekly>>
    /\ DateMatches(rBlank[1], today)
    /\ sheet_message = Some(rWeekly[2])

---------------------------------------------------------------------------
(* C5 *)

WeeklyNote == <<"weekly", " ", "note">>

\* Row i of the sheet is the marker row and no other row of the sheet has a
\* matching date cell together with a non-blank message cell.
OnlyWeeklyAt(i, vals, d) ==
    /\ vals[i] = rWeekly
    /\ \A j \in (1..Len(vals)) \ {i} :
           ~(/\ Len(vals[j]) >= 2
             /\ DateMatches(vals[j][1], d)
             /\ ~IsBlank(vals[j][2]))

\* C5 as stated: with the marker row anywhere in the rows the spreadsheet
\* returns and no other matching row, a request without override broadcasts
\* "weekly note" on every date.
C5_AnyRow ==
    (Answered /\ NoOverride /\ sheets_status = "ok"
        /\ \E i \in 1..Len(values) : OnlyWeeklyAt(i, values, today))
    => SentText = WeeklyNote

\* C5, amended: with the marker row below the header row (not the first row
\* of the range) and no other matching row, a request without override
\* broadcasts "weekly note" on every date.
C5_BelowHeader ==
    (Answered /\ NoOverride /\ sheets_status = "ok"
        /\ \E i \in 2..Len(values) : OnlyWeeklyAt(i, values, today))
    => /\ SentText = WeeklyNote
       /\ sheet_message = Some(WeeklyNote)
       /\ response.code = 200 => response.content = Some(WeeklyNote)

\* On a 29th of February the marker row, third row of a sheet whose second
\* row is dated 2024-01-01, gave the broadcast.
C5_Witness ==
    /\ Answered /\ NoOverride /\ sheets_status = "ok"
    /\ values = <<rHeader, rNewYear, rWeekly>>
    /\ OnlyWeeklyAt(3, values, today)
    /\ today.month = 2 /\ today.day = 29
    /\ response.content = Some(WeeklyNote)

---------------------------------------------------------------------------
(* C6 *)

\* Days of a common year before each month.
DaysBeforeMonthTable == <<0, 31, 59, 90, 120, 151, 181, 212, 243, 273, 304, 334>>

\* The 1-based ordinal day of the year, by table.
DayOfYear(d) ==
    DaysBeforeMonthTable[d.month] + d.day
        + (IF d.month > 2 /\ DaysInYear(d.year) = 366 THEN 1 ELSE 0)

\* The lookup was made, or skipped for want of configuration, and gave nothing.
RotationCase == Answered /\ NoOverride /\ sheet_message = None

\* C6: with no override and no message from the spreadsheet, the text
\* broadcast on day d is the trimmed rotation entry at index
\* (dayOfYear(d) - 1) mod 15: index 0 on Jan 1, index 4 on Dec 31 of a
\* 365-day year, and the same entry on equal ordinal days of any year.
C6_RotationByDayOfYear ==
    RotationCase =>
        /\ SentText = Strip(teachings_with_url[((DayOfYear(today) - 1) % 15) + 1])
        /\ (today.month = 1 /\ today.day = 1) =>
               SentText = Strip(teachings_with_url[0 + 1])
        /\ (today.month = 12 /\ today.day = 31 /\ DaysInYear(today.year) = 365) =>
               SentText = Strip(teachings_with_url[4 + 1])
        /\ (today.month = 12 /\ today.day = 31 /\ DaysInYear(today.year) = 366) =>
               SentText = Strip(teachings_with_url[5 + 1])

\* The broadcast of Dec 31 of a 365-day year carried entry 4.
C6_Witness ==
    /\ RotationCase
    /\ today.month = 12 /\ today.day = 31 /\ DaysInYear(today.year) = 365
    /\ response.content = Some(teachings_with_url[5])
    /\ TeachingLinks[5] = "jihi"

---------------------------------------------------------------------------
(* C7 *)

\* The n consecutive days that start with d, each with its rotation entry.
RECURSIVE RunFrom(_, _)
RunFrom(d, n) ==
    IF n = 0 THEN <<>>
    ELSE <<[year |-> d.year, text |-> RotationText(d)]>>
             \o RunFrom(NextDay(d), n - 1)

\* No later day of the run has the first day's entry, and the run shows as
\* many entries as it has days.
NoRepeatIn(run, first) ==
    /\ \A k \in 2..Len(run) : run[k].text # first
    /\ Cardinality({run[k].text : k \in 1..Len(run)}) = Len(run)

\* The same of the days of the run that lie in the year of its first day.
NoRepeatInYearOf(run, first) ==
    /\ \A k \in 2..Len(run) : run[k].year = run[1].year => run[k].text # first
    /\ run[Len(run)].year = run[1].year =>
           Cardinality({run[k].text : k \in 1..Len(run)}) = Len(run)

\* C7 as stated: over any run of consecutive days, year ends included, no
\* entry repeats within 15 days and 15 consecutive days show all 15 entries.
C7_NoRepeatAcrossYears ==
    RotationCase =>
        NoRepeatIn(RunFrom(today, 15), SentText)

\* C7, amended: within one calendar year no entry repeats within 15 days,
\* and 15 consecutive days of one year show all 15 entries.
C7_NoRepeatWithinYear ==
    RotationCase =>
        NoRepeatInYearOf(RunFrom(today, 15), SentText)

\* A rotation broadcast on a Feb 20 of a leap year: the 15 days from it run
\* over Feb 29 and stay in the year.
C7_Witness ==
    /\ RotationCase
    /\ today.month = 2 /\ today.day = 20 /\ DaysInYear(today.year) = 366
    /\ RunFrom(today, 15)[15].text = RotationText([today EXCEPT !.month = 3, !.day = 5])
    /\ SentText = RotationText(today)

---------------------------------------------------------------------------
(* C8 *)

\* The lookup of this invocation failed: configuration missing, request
\* raised, status not 200, payload not JSON, or no rows at all.
SheetsFailed ==
    \/ ~GOOGLE_SHEETS_API_KEY
    \/ ~SPREADSHEET_ID
    \/ sheets_status \in {"raise", "http_error", "bad_json"}
    \/ sheets_status = "ok" /\ values = <<>>

\* C8: a failing spreadsheet lookup yields no message and raises nothing;
\* a request without override then broadcasts the rotation entry, succeeds
\* when the delivery succeeds, and an error response names the delivery
\* only.
C8_SheetsFailureFallsThrough ==
    (Answered /\ NoOverride /\ SheetsFailed) =>
        /\ sheet_message = None
        /\ tier = "ROTATION"
        /\ sent = <<BroadcastRequest(RotationText(today))>>
        /\ delivery = "ok" => response = SuccessResponse(RotationText(today))
        /\ response.code = 500 =>
               (delivery = "failed" /\ response.message = "ApiException")

\* The request to the spreadsheet raised and the broadcast succeeded with
\* the rotation entry.
C8_Witness ==
    /\ Answered /\ NoOverride
    /\ sheets_status = "raise"
    /\ response.code = 200
    /\ response.content = Some(RotationText(today))

---------------------------------------------------------------------------
(* C9 *)

\* C9: a failing Broadcaster call gives a 500 error response carrying the
\* error's description, and no invocation calls the Broadcaster twice.
C9_DeliveryFailureNotRetried ==
    /\ Len(sent) <= 1
    /\ delivery = "failed" =>
           /\ Len(sent) = 1
           /\ response = ErrorResponse("ApiException")
           /\ response.code = 500 /\ response.status = "error"

\* The Broadcaster refused a spreadsheet message.
C9_Witness ==
    /\ delivery = "failed"
    /\ tier = "SHEET"
    /\ Len(sent) = 1
    /\ response.code = 500

---------------------------------------------------------------------------
(* C10 *)

\* C10: a success response follows exactly one Broadcaster call with exactly
\* one text message, and its content is that message's text.
C10_SuccessEchoesSentText ==
    response.code = 200 =>
        /\ Len(sent) = 1
        /\ Len(sent[1].messages) = 1
        /\ sent[1].messages[1].type = "text"
        /\ response.status = "success"
        /\ response.content = Some(sent[1].messages[1].text)
        /\ delivery = "ok"

\* A success whose text has whitespace at both ends.
C10_Witness ==
    /\ response.code = 200
    /\ Len(sent) = 1
    /\ SentText = <<" ", "hi", "\n">>
    /\ response.content = Some(<<" ", "hi", "\n">>)

---------------------------------------------------------------------------
(* C11 *)

\* C11 as stated: the failure result is given only after the Broadcaster
\* call was attempted and failed.
C11_FailureOnlyFromDelivery ==
    response.code = 500 => (delivery = "failed" /\ Len(sent) = 1)

\* The request body cannot be used: get_json() raises on it, or it is a
\* JSON value without .get.
BodyUnusable == request.json \in {"invalid", "list"}

\* C11, amended: the failure result is given only when the Broadcaster call
\* was attempted and failed, or when the request body cannot be read as a
\* JSON object (then before any delivery); selecting the message never
\* gives it.
C11_FailureFromDeliveryOrBody ==
    /\ response.code = 500 =>
           \/ delivery = "failed" /\ Len(sent) = 1
           \/ BodyUnusable /\ sent = <<>> /\ sheets_status = "not_requested"
    /\ (Answered /\ ~BodyUnusable) =>
           /\ Len(sent) = 1
           /\ tier # "NONE"
           /\ response.code = 500 <=> delivery = "failed"
           /\ response.code = 200 <=> delivery = "ok"

\* The spreadsheet request raised, the rotation entry was selected, and the
\* failure result came from the delivery.
C11_Witness ==
    /\ response.code = 500
    /\ request.json = "object"
    /\ sheets_status = "raise"
    /\ tier = "ROTATION"
    /\ delivery = "failed"
    /\ Len(sent) = 1

---------------------------------------------------------------------------
(* C12 *)

\* GET /test-wisdom called the generator and the generator raised.
GeneratorFailed == wisdom.generator = "failed"

\* C12 as stated: when the generator is invoked and fails, the fixed default
\* text is returned with a success status instead of an error result.
C12_GeneratorFailureGivesDefault ==
    GeneratorFailed =>
        /\ wisdom.code = 200
        /\ wisdom.kind = "default"
        /\ wisdom.text = DefaultText

---------------------------------------------------------------------------
(* C13 *)

\* The recorded requests the LINE API accepted.
Accepted == {i \in 1..Len(outbox) : outbox[i].accepted}

\* C13: the handler keeps nothing between invocations and leaves out no
\* repetition: every recorded invocation whose selection completed made one
\* Broadcaster call, whatever was broadcast before, so the channel received
\* as many requests as there were such invocations, and k invocations
\* answered with success gave exactly k accepted broadcasts.
C13_EveryInvocationBroadcasts ==
    /\ Len(outbox) = invocations
    /\ Cardinality(Accepted) = successes
    /\ tier # "NONE" => Len(sent) = 1
    /\ (watch = 0 /\ successes = MaxCalls) =>
           /\ Len(outbox) = MaxCalls
           /\ Accepted = 1..MaxCalls

\* Three invocations on one day broadcast the same text three times.
C13_Witness ==
    /\ invocations = 3
    /\ successes = 3
    /\ Len(outbox) = 3
    /\ outbox[1] = outbox[2]
    /\ outbox[2] = outbox[3]
    /\ outbox[3].accepted
    /\ sent = <<outbox[3].request>>
    /\ response.code = 200

---------------------------------------------------------------------------
(* C14 *)

\* GET /blog/<teaching_key> has been answered.
PageServed == page # NoPage

\* C14: GET /blog/<key> renders the entry stored under exactly that key when
\* the key is in the table (for chudo, the entry named U+4E2D U+9053), answers
\* 404 and renders no entry for every other key, and leaves the table as the
\* module defined it.
C14_BlogLookup ==
    /\ DETAILED_TEACHINGS = TeachingTable
    /\ PageServed =>
           IF page.key \in DOMAIN TeachingTable
           THEN /\ page.code = 200
                /\ page.teaching = TeachingTable[page.key]
                /\ page.key = "chudo" => page.teaching.name = "U+4E2D U+9053"
           ELSE /\ page.code = 404
                /\ page.teaching = NoTeaching

\* /blog/chudo was answered with the entry named U+4E2D U+9053.
C14_Witness ==
    /\ page.key = "chudo"
    /\ page.code = 200
    /\ page.teaching.name = "U+4E2D U+9053"
    /\ DETAILED_TEACHINGS = TeachingTable

\* /blog/doesnotexist was answered 404.
C14_WitnessNotFound ==
    /\ page.key = "doesnotexist"
    /\ page.code = 404
    /\ page.teaching = NoTeaching

---------------------------------------------------------------------------
(* C15 *)

\* The key a text links to: what follows the blog's URL at its end.
LinkedKey(text) ==
    IF Len(text) >= 2 /\ text[Len(text) - 1] = BlogUrl
    THEN text[Len(text)]
    ELSE ""

\* GET /blog/<key> finds an entry.
Resolves(key) ==
    /\ key \in DOMAIN DETAILED_TEACHINGS
    /\ blog_article(DETAILED_TEACHINGS, key).code = 200

\* C15: each of the 15 rotation messages ends with a /blog/<key> link, the
\* i-th message linking to the i-th entry of teaching_keys, a key of
\* DETAILED_TEACHINGS; so on every day the link of a rotation broadcast, the
\* one of the day's entry, is answered with an entry and never with 404.
C15_RotationLinksResolve ==
    /\ Len(teachings_with_url) = 15
    /\ Len(teaching_keys) = 15
    /\ \A i \in 1..15 :
           /\ LinkedKey(teachings_with_url[i]) = teaching_keys[i]
           /\ Resolves(teaching_keys[i])
    /\ RotationCase =>
           /\ LinkedKey(SentText) = teaching_keys[((DayOfYear(today) - 1) % 15) + 1]
           /\ Resolves(LinkedKey(SentText))
           /\ blog_article(DETAILED_TEACHINGS, LinkedKey(SentText)).teaching
                  = TeachingTable[LinkedKey(SentText)]

\* The rotation broadcast of Jan 15 linked to the last article, shojin.
C15_Witness ==
    /\ RotationCase
    /\ today.month = 1 /\ today.day = 15
    /\ LinkedKey(SentText) = "shojin"
    /\ Resolves("shojin")
    /\ response.code = 200

===========================================================================
